---- MODULE Spec2Model ----
(***************************************************************************)
(* Model of the query / pagination / retry engine of enverus_developer_api *)
(* (BaseAPI.query, BaseAPI._check_response, get_access_token of the two    *)
(* client variants) and of the HTTP exchanges it performs.                 *)
(***************************************************************************)
EXTENDS Integers, Sequences, FiniteSets, TLC

(***************************************************************************)
(* Text.  A Python str is modelled as a run-length encoded sequence of     *)
(* characters: a sequence of runs [c |-> character, n |-> repetitions],    *)
(* normalised so that adjacent runs carry different characters.  This      *)
(* keeps values of many hundred characters small while len(), "in",        *)
(* str.split, re.split and max() are computed character by character.      *)
(***************************************************************************)

Run(ch, k) == [c |-> ch, n |-> k]

\* s + t
Cat(s, t) ==
    IF s = <<>> THEN t
    ELSE IF t = <<>> THEN s
    ELSE IF s[Len(s)].c = t[1].c
         THEN SubSeq(s, 1, Len(s) - 1)
              \o <<Run(t[1].c, s[Len(s)].n + t[1].n)>>
              \o Tail(t)
         ELSE s \o t

\* a string literal, given character by character
RECURSIVE Lit(_)
Lit(cs) == IF cs = <<>> THEN <<>> ELSE Cat(<<Run(Head(cs), 1)>>, Lit(Tail(cs)))

\* ch * k
Rep(ch, k) == IF k = 0 THEN <<>> ELSE <<Run(ch, k)>>

\* len(s)
RECURSIVE StrLen(_)
StrLen(s) == IF s = <<>> THEN 0 ELSE Head(s).n + StrLen(Tail(s))

\* pat occurs at run i of s
MatchAt(s, pat, i) ==
    LET k == Len(pat) IN
    /\ i + k - 1 <= Len(s)
    /\ s[i].c = pat[1].c
    /\ s[i].n >= pat[1].n
    /\ k > 1 => /\ s[i + k - 1].c = pat[k].c
                /\ s[i + k - 1].n >= pat[k].n
                /\ \A j \in 2..(k - 1) : s[i + j - 1] = pat[j]

\* pat in s   (pat non-empty)
Contains(s, pat) == \E i \in 1..Len(s) : MatchAt(s, pat, i)

\* code points of the characters the model uses
Ord(ch) ==
    CASE ch = "(" -> 40 [] ch = ")" -> 41 [] ch = "," -> 44 [] ch = "/" -> 47
      [] ch = "1" -> 49 [] ch = "7" -> 55 [] ch = "=" -> 61 [] ch = "?" -> 63
      [] ch = "A" -> 65 [] ch = "E" -> 69 [] ch = "F" -> 70 [] ch = "L" -> 76
      [] ch = "S" -> 83
      [] ch = "a" -> 97 [] ch = "b" -> 98 [] ch = "d" -> 100 [] ch = "e" -> 101
      [] ch = "f" -> 102 [] ch = "g" -> 103 [] ch = "i" -> 105 [] ch = "k" -> 107
      [] ch = "l" -> 108 [] ch = "n" -> 110 [] ch = "o" -> 111 [] ch = "p" -> 112
      [] ch = "r" -> 114 [] ch = "s" -> 115 [] ch = "t" -> 116 [] ch = "u" -> 117
      [] ch = "w" -> 119 [] ch = "z" -> 122

\* s < t in Python's str ordering
RECURSIVE StrLess(_, _)
StrLess(s, t) ==
    IF t = <<>> THEN FALSE
    ELSE IF s = <<>> THEN TRUE
    ELSE IF s[1].c # t[1].c THEN Ord(s[1].c) < Ord(t[1].c)
    ELSE IF s[1].n = t[1].n THEN StrLess(Tail(s), Tail(t))
    ELSE IF s[1].n < t[1].n
         THEN StrLess(Tail(s), <<Run(t[1].c, t[1].n - s[1].n)>> \o Tail(t))
         ELSE StrLess(<<Run(s[1].c, s[1].n - t[1].n)>> \o Tail(s), Tail(t))

\* max(values): the first greatest element
RECURSIVE StrMax(_)
StrMax(vs) ==
    IF Len(vs) = 1 THEN vs[1]
    ELSE LET m == StrMax(SubSeq(vs, 1, Len(vs) - 1)) IN
         IF StrLess(m, vs[Len(vs)]) THEN vs[Len(vs)] ELSE m

\* s.split(",")
RECURSIVE SplitComma(_, _)
SplitComma(s, cur) ==
    IF s = <<>> THEN <<cur>>
    ELSE IF s[1].c = ","
         THEN <<cur>> \o SplitComma(Cat(Rep(",", s[1].n - 1), Tail(s)), <<>>)
         ELSE SplitComma(Tail(s), Cat(cur, <<s[1]>>))

\* ",".join(items)
RECURSIVE JoinComma(_)
JoinComma(items) ==
    IF items = <<>> THEN <<>>
    ELSE IF Len(items) = 1 THEN items[1]
    ELSE Cat(Cat(items[1], Lit(<<",">>)), JoinComma(Tail(items)))

\* str.lower() on the characters the model uses
LowerChar(ch) ==
    CASE ch = "A" -> "a" [] ch = "E" -> "e" [] ch = "F" -> "f"
      [] ch = "H" -> "h" [] ch = "L" -> "l" [] ch = "N" -> "n"
      [] ch = "O" -> "o" [] ch = "S" -> "s" [] ch = "T" -> "t"
      [] ch = "X" -> "x" [] OTHER -> ch

RECURSIVE Lower(_)
Lower(s) ==
    IF s = <<>> THEN <<>>
    ELSE Cat(<<Run(LowerChar(s[1].c), s[1].n)>>, Lower(Tail(s)))

InOpen == Lit(<<"i", "n", "(">>)

\* BaseAPI.in_ : "in({})".format(",".join(str(x) for x in items))
in_(items) == Cat(Cat(InOpen, JoinComma(items)), Lit(<<")">>))

\* first run of s at which "in(" starts and a ")" follows: where the
\* pattern in\((.*?)\) first matches
InMatches(s) == {i \in 1..Len(s) : MatchAt(s, InOpen, i) /\ \E j \in (i + 3)..Len(s) : s[j].c = ")"}
HasInMatch(s) == InMatches(s) # {}

\* re.split(r"in\((.*?)\)", s)[1] : the text between the first "in(" and
\* the first ")" after it
InGroup(s) ==
    LET i == CHOOSE x \in InMatches(s) : \A y \in InMatches(s) : x <= y
        j == CHOOSE x \in (i + 3)..Len(s) :
                 s[x].c = ")" /\ \A y \in (i + 3)..(x - 1) : s[y].c # ")"
    IN Cat(Rep("(", s[i + 2].n - 1), SubSeq(s, i + 3, j - 1))

Min(a, b) == IF a < b THEN a ELSE b

\* _chunks(iterable, n), n >= 1: the slices iterable[ndx : min(ndx + n, l)]
RECURSIVE ChunksFrom(_, _, _)
ChunksFrom(iterable, n, ndx) ==
    IF ndx >= Len(iterable) THEN <<>>
    ELSE <<SubSeq(iterable, ndx + 1, Min(ndx + n, Len(iterable)))>>
         \o ChunksFrom(iterable, n, ndx + n)

\* slices one element short: iterable[ndx : min(ndx + n, l) - 1]
RECURSIVE ShortChunksFrom(_, _, _)
ShortChunksFrom(iterable, n, ndx) ==
    IF ndx >= Len(iterable) THEN <<>>
    ELSE <<SubSeq(iterable, ndx + 1, Min(ndx + n, Len(iterable)) - 1)>>
         \o ShortChunksFrom(iterable, n, ndx + n)

_chunks_short(iterable, n) == ShortChunksFrom(iterable, n, 0)

_chunks(iterable, n) == ChunksFrom(iterable, n, 0)


(***************************************************************************)
(* URLs and request parameters.                                            *)
(***************************************************************************)

\* BaseAPI.url of the client: the API root, ending in "/"
BaseUrl == Lit(<<"a", "p", "i", "/">>)

\* os.path.join(self.url, name)
UrlJoin(base, name) == Cat(base, name)

TokensName == Lit(<<"t", "o", "k", "e", "n", "s">>)
PagingKey == Lit(<<"p", "a", "g", "i", "n", "g">>)
TrueStr == Lit(<<"t", "r", "u", "e">>)
FalseStr == Lit(<<"f", "a", "l", "s", "e">>)

\* percent-encoding of the reserved characters of a parameter value
RECURSIVE QuoteRun(_, _)
QuoteRun(ch, k) ==
    IF k = 0 THEN <<>>
    ELSE Cat(CASE ch = "(" -> Lit(<<"%", "2", "8">>)
               [] ch = ")" -> Lit(<<"%", "2", "9">>)
               [] ch = "," -> Lit(<<"%", "2", "C">>),
             QuoteRun(ch, k - 1))

RECURSIVE Quote(_)
Quote(s) ==
    IF s = <<>> THEN <<>>
    ELSE Cat(IF s[1].c \in {"(", ")", ","} THEN QuoteRun(s[1].c, s[1].n) ELSE <<s[1]>>,
             Quote(Tail(s)))

\* the query string requests builds from params=options
RECURSIVE QueryString(_)
QueryString(options) ==
    IF options = <<>> THEN <<>>
    ELSE LET kv == Cat(Cat(options[1].field, Lit(<<"=">>)), Quote(options[1].value))
         IN IF Len(options) = 1 THEN kv
            ELSE Cat(Cat(kv, Lit(<<"&">>)), QueryString(Tail(options)))

\* the URL of session.get(query_url, params=options)
RequestUrl(query_url, options) ==
    IF options = <<>> THEN query_url
    ELSE Cat(Cat(query_url, Lit(<<"?">>)), QueryString(options))

\* "key" in options
HasKey(options, key) == \E i \in 1..Len(options) : options[i].field = key

\* options[key]
Lookup(options, key) ==
    options[CHOOSE i \in 1..Len(options) : options[i].field = key].value

\* options.pop(key)
RECURSIVE Without(_, _)
Without(options, key) ==
    IF options = <<>> THEN <<>>
    ELSE IF options[1].field = key THEN Without(Tail(options), key)
    ELSE <<options[1]>> \o Without(Tail(options), key)

\* options[key] = value, for a key already present
Assign(options, key, value) ==
    [i \in 1..Len(options) |->
        IF options[i].field = key THEN [field |-> key, value |-> value]
        ELSE options[i]]

(***************************************************************************)
(* Headers.  A header mapping is a sequence of [k, v] entries in insertion *)
(* order; the session's mapping compares header names without case.       *)
(***************************************************************************)

Hdr(k, v) == [k |-> k, v |-> v]

OmitKey ==
    Lit(<<"X", "-", "O", "m", "i", "t", "-", "H", "e", "a", "d", "e", "r", "-",
          "N", "e", "x", "t", "-", "L", "i", "n", "k", "s">>)
OmitLower ==
    Lit(<<"x", "-", "o", "m", "i", "t", "-", "h", "e", "a", "d", "e", "r", "-",
          "n", "e", "x", "t", "-", "l", "i", "n", "k", "s">>)
TagKey == Lit(<<"T", "a", "g">>)

\* self.session.headers[k] = v
SetHeader(hs, k, v) ==
    IF \E i \in 1..Len(hs) : Lower(hs[i].k) = Lower(k)
    THEN [i \in 1..Len(hs) |-> IF Lower(hs[i].k) = Lower(k) THEN Hdr(k, v) ELSE hs[i]]
    ELSE Append(hs, Hdr(k, v))

\* the headers of a request: the session's, updated by those given to
\* session.get(..., headers=request_headers)
RECURSIVE MergeHeaders(_, _)
MergeHeaders(sess, req) ==
    IF req = <<>> THEN sess
    ELSE MergeHeaders(SetHeader(sess, req[1].k, req[1].v), Tail(req))

\* line 626
IsOmitHeader(h) == Lower(h.k) = OmitLower /\ Lower(h.v) = TrueStr

\* lines 622-629: is_omit_header_next_link writes each header into the
\* session's headers until it meets the flag; it returns whether it met
\* the flag, and leaves the session's headers as hs
RECURSIVE is_omit_header_next_link(_, _)
is_omit_header_next_link(hs, sess) ==
    IF hs = <<>> THEN [omit |-> FALSE, headers |-> sess]
    ELSE LET written == SetHeader(sess, hs[1].k, hs[1].v) IN
         IF IsOmitHeader(hs[1]) THEN [omit |-> TRUE, headers |-> written]
         ELSE is_omit_header_next_link(Tail(hs), written)

(***************************************************************************)
(* The chunk plan of query(): lines 431-436.                               *)
(***************************************************************************)

ChunkThreshold == 1950

\* query_chunks = None
NoChunks == [active |-> FALSE, field |-> <<>>, subsets |-> <<>>]

\* line 433: "in(" in str(v) and len(str(v)) > 1950
Oversized(v) == Contains(v, InOpen) /\ StrLen(v) > ChunkThreshold

\* line 434: re.split(r"in\((.*?)\)", options[field])[1].split(",")
FilterValues(v) == SplitComma(InGroup(v), <<>>)

\* line 435: int(floor(1950 / len(max(values))))
ChunkSize(values) == ChunkThreshold \div StrLen(StrMax(values))

\* lines 434-436 raise: IndexError when the pattern does not match,
\* ZeroDivisionError when max(values) is empty, ValueError from range()
\* when the chunk size is 0
PlanRaises(v) ==
    \/ ~HasInMatch(v)
    \/ StrLen(StrMax(FilterValues(v))) = 0
    \/ ChunkSize(FilterValues(v)) = 0

\* line 436: query_chunks = (field, [x for x in _chunks(values, chunksize)])
FieldPlan(field, v) ==
    [active |-> TRUE, field |-> field,
     subsets |-> _chunks(FilterValues(v), ChunkSize(FilterValues(v)))]

\* the loop keeping the plan of the first oversized field
RECURSIVE BuildPlan_firstWins(_, _, _)
BuildPlan_firstWins(options, i, acc) ==
    IF i > Len(options) \/ acc.active THEN [raised |-> FALSE, chunks |-> acc]
    ELSE IF ~Oversized(options[i].value) THEN BuildPlan_firstWins(options, i + 1, acc)
    ELSE IF PlanRaises(options[i].value) THEN [raised |-> TRUE, chunks |-> acc]
    ELSE BuildPlan_firstWins(options, i + 1,
                             FieldPlan(options[i].field, options[i].value))

\* lines 431-436: the loop over options.items(); the last oversized field
\* wins, an exception ends the loop
RECURSIVE BuildPlan(_, _, _)
BuildPlan(options, i, acc) ==
    IF i > Len(options) THEN [raised |-> FALSE, chunks |-> acc]
    ELSE IF ~Oversized(options[i].value) THEN BuildPlan(options, i + 1, acc)
    ELSE IF PlanRaises(options[i].value) THEN [raised |-> TRUE, chunks |-> acc]
    ELSE BuildPlan(options, i + 1, FieldPlan(options[i].field, options[i].value))

\* line 438: options.pop("paging") if "paging" in options else "true"
PagingOf(options) ==
    IF HasKey(options, PagingKey) THEN Lookup(options, PagingKey) ELSE TrueStr

\* query_chunks and query_chunks[1]
ChunksPending(chunks) == chunks.active /\ chunks.subsets # <<>>

(***************************************************************************)
(* Inputs: datasets, filter value lists and option mappings.               *)
(***************************************************************************)

Wells == Lit(<<"w", "e", "l", "l", "s">>)
Rigs == Lit(<<"r", "i", "g", "s">>)
Datasets == {Wells, Rigs}

UidKey == Lit(<<"u", "i", "d">>)
ApiKey == Lit(<<"a", "p", "i">>)

\* value lists whose in(...) expression is longer than 1950 characters
ListTwoOne == <<Rep("a", 700), Rep("b", 700), Rep("a", 650)>>
ListOnes == <<Rep("b", 1000), Rep("a", 1000), Rep("b", 1000)>>
\* a list whose greatest value in str ordering is its shortest
ListShortMax == <<Rep("a", 990), Lit(<<"z">>), Rep("b", 990)>>
ValueLists == {ListTwoOne, ListOnes, ListShortMax}

Opt(k, v) == [field |-> k, value |-> v]

OptionChoices ==
    {<<>>,
     <<Opt(PagingKey, FalseStr)>>,
     <<Opt(UidKey, in_(ListTwoOne))>>,
     <<Opt(UidKey, in_(ListOnes))>>,
     <<Opt(UidKey, in_(ListShortMax))>>,
     <<Opt(UidKey, in_(ListTwoOne)), Opt(PagingKey, Lit(<<"F", "a", "l", "s", "e">>))>>,
     <<Opt(UidKey, in_(ListTwoOne)), Opt(ApiKey, in_(ListOnes))>>,
     <<Opt(ApiKey, in_(ListOnes)), Opt(UidKey, in_(ListTwoOne))>>}

(***************************************************************************)
(* Bounds of the model.                                                    *)
(***************************************************************************)

\* responses received in one behaviour
MaxRequests == 3
\* records in one response body
MaxPageSize == 2
\* the retries argument the client was constructed with
InitRetries == 1
\* the query() calls of one behaviour
GenIds == {1, 2}

(***************************************************************************)
(* State.                                                                  *)
(***************************************************************************)

VARIABLES
    variant,        \* "v2" (DirectAccessV2) or "v3" (DeveloperAPIv3)
    hasCreds,       \* the credentials given to the constructor are non-empty
    headers,        \* self.session.headers, but for Authorization and the
                    \* headers the library sets itself
    links,          \* self.links
    access_token,   \* self.access_token
    auth,           \* self.session.headers["Authorization"]
    retries,        \* self.retries
    gens,           \* the generator objects returned by query(), each with its
                    \* history: args (the options of the call), plan (the chunk
                    \* plan as first computed), reqs (requests built), batches
                    \* (record lists received), yielded (records handed out)
    stack,          \* requests being sent: the last one is in flight, the ones
                    \* below it wait in _check_response for get_access_token
    caller,         \* the operation that sent the last request
    result,         \* outcome of the last count / ddl / docs call
    xlog,           \* the exchanges made since the caller last called the client
    nreq,           \* responses received so far
    ntok            \* tokens issued by the token endpoint so far

vars == <<variant, hasCreds, headers, links, access_token, auth, retries, gens, stack,
          caller, result, xlog, nreq, ntok>>

\* self.links = None
NoLink == [id |-> 0, url |-> <<>>]
\* self.links = {} : what parse_links returns for a links object whose
\* "next" is empty (lines 633-641)
EmptyLinks == [id |-> -1, url |-> <<>>]

\* "bearer {}".format(token)
Bearer(t) == [scheme |-> "bearer", cred |-> t]
\* "Basic {}".format(b64encode(client_id:client_secret))
Basic == [scheme |-> "Basic", cred |-> 0]

\* what an exception's message carries of the response: its status code
\* and its text (the number of the response), 0 where the message has none
NoDetail == [status |-> 0, body |-> 0]

NoGen ==
    [pc |-> "none", dataset |-> <<>>, options |-> <<>>, paging |-> <<>>,
     chunks |-> NoChunks, buf |-> <<>>, err |-> "none", detail |-> NoDetail,
     args |-> <<>>, plan |-> <<>>, yielded |-> <<>>, reqs |-> <<>>,
     batches |-> <<>>, hdrsArg |-> <<>>, request_headers |-> <<>>,
     omit |-> FALSE]

\* access_token = None, and a session without Authorization header
NoToken == -1
NoAuth == [scheme |-> "none", cred |-> 0]

NoCaller == [t |-> "none", g |-> 0, op |-> "none"]
\* no client object yet
Unbuilt == [t |-> "unbuilt", g |-> 0, op |-> "none"]
NoResult == [op |-> "none", status |-> 0, err |-> "none"]

Init ==
    /\ variant \in {"v2", "v3"}
    /\ hasCreds \in BOOLEAN
    /\ headers = <<>>
    /\ links = NoLink
    /\ access_token = 0
    /\ auth = Bearer(0)
    /\ retries = InitRetries
    /\ gens = [g \in GenIds |-> NoGen]
    /\ stack = <<>>
    /\ caller = NoCaller
    /\ result = NoResult
    /\ xlog = <<>>
    /\ nreq = 0
    /\ ntok = 0

\* before the constructor runs
InitUnbuilt ==
    /\ variant \in {"v2", "v3"}
    /\ hasCreds \in BOOLEAN
    /\ headers = <<>>
    /\ links = NoLink
    /\ access_token = NoToken
    /\ auth = NoAuth
    /\ retries = InitRetries
    /\ gens = [g \in GenIds |-> NoGen]
    /\ stack = <<>>
    /\ caller = Unbuilt
    /\ result = NoResult
    /\ xlog = <<>>
    /\ nreq = 0
    /\ ntok = 0

(***************************************************************************)
(* Sending a request.                                                      *)
(***************************************************************************)

\* s[:-1]
DropLast(s) ==
    IF s[Len(s)].n = 1 THEN SubSeq(s, 1, Len(s) - 1)
    ELSE SubSeq(s, 1, Len(s) - 1) \o <<Run(s[Len(s)].c, s[Len(s)].n - 1)>>

\* the adapter's retry count read from self.retries at every send
max_retries_shared(selfRetries) == selfRetries

\* lines 67-73: the Retry object of the mounted adapter, built by the
\* constructor with total = the retries argument; whatever self.retries
\* is later, every send starts from this total
max_retries(selfRetries) == InitRetries

\* a prepared request: the session's Authorization header is merged in
\* when the request is prepared; left counts the retries the adapter has
\* left for it
Frame(kind, rel, lnk, a) ==
    [kind |-> kind, rel |-> rel, url |-> UrlJoin(BaseUrl, rel), link |-> lnk,
     auth |-> a, resent |-> FALSE, left |-> max_retries(retries),
     hdrs |-> headers]

\* the relative URL of a dataset request
DataRel(dataset, options) == RequestUrl(dataset, options)

\* the loop never following the link
FollowsLink_never(lnk) == FALSE

\* line 441: if self.links
FollowsLink(lnk) == lnk # NoLink /\ lnk # EmptyLinks

\* lines 441-447: the request of one turn of the paging loop
\* and the generator's state after building it
NextRequest(gen, lnk) ==
    IF FollowsLink(lnk)
    THEN [gen |-> [gen EXCEPT !.reqs = Append(@, [kind |-> "link", link |-> lnk.id,
                                                   url |-> Cat(DropLast(BaseUrl), lnk.url),
                                                   subset |-> <<>>])],
          rel |-> Tail(lnk.url), link |-> lnk.id]
    ELSE LET pop == ChunksPending(gen.chunks)
             opts == IF pop
                     THEN Assign(gen.options, gen.chunks.field,
                                 in_(Head(gen.chunks.subsets)))
                     ELSE gen.options
             rel == DataRel(gen.dataset, opts)
         IN [gen |-> [gen EXCEPT
                        !.options = opts,
                        !.chunks.subsets = IF pop THEN Tail(@) ELSE @,
                        !.reqs = Append(@, [kind |-> "fresh", link |-> 0,
                                            url |-> UrlJoin(BaseUrl, rel),
                                            subset |-> IF pop THEN Head(gen.chunks.subsets)
                                                       ELSE <<>>])],
             rel |-> rel, link |-> 0]

\* one turn of the loop sends its request, with the session's headers
\* updated by the call's request_headers (lines 675, 680); the headers
\* that the first turn's is_omit_header_next_link wrote into the session
\* are among request_headers, with the same values
SendFor(g, gen, lnk) ==
    LET r == NextRequest(gen, lnk) IN
    /\ gens' = [gens EXCEPT ![g] = [r.gen EXCEPT !.pc = "wait"]]
    /\ stack' = <<[Frame("data", r.rel, r.link, auth) EXCEPT
                     !.hdrs = MergeHeaders(headers, gen.request_headers)]>>
    /\ caller' = [t |-> "gen", g |-> g, op |-> "query"]

(***************************************************************************)
(* The caller's operations.                                                *)
(***************************************************************************)

\* query(dataset, **options): creates the generator; no code of the body
\* runs before the first next()
Query(g, dataset, options) ==
    /\ stack = <<>>
    /\ gens[g].pc = "none"
    /\ IF g = 1 THEN TRUE ELSE gens[g - 1].pc # "none"
    /\ gens' = [gens EXCEPT ![g] = [NoGen EXCEPT !.pc = "new", !.dataset = dataset,
                                                  !.options = options,
                                                  !.args = options]]
    /\ UNCHANGED <<variant, hasCreds, headers, links, access_token, auth, retries, stack,
                   caller, result, xlog, nreq, ntok>>

\* query(dataset, _headers=hdrs, **options) of DeveloperAPIv3
QueryWithHeaders(g, dataset, options, hdrs) ==
    /\ variant = "v3"
    /\ stack = <<>>
    /\ gens[g].pc = "none"
    /\ IF g = 1 THEN TRUE ELSE gens[g - 1].pc # "none"
    /\ gens' = [gens EXCEPT ![g] = [NoGen EXCEPT !.pc = "new", !.dataset = dataset,
                                                  !.options = options,
                                                  !.args = options,
                                                  !.hdrsArg = hdrs]]
    /\ UNCHANGED <<variant, hasCreds, headers, links, access_token, auth, retries,
                   stack, caller, result, xlog, nreq, ntok>>

\* the first next(): lines 429-438 (v3: 656-671), then the first turn of
\* the loop
PullFirst(g) ==
    /\ stack = <<>>
    /\ gens[g].pc = "new"
    /\ LET flag == is_omit_header_next_link(gens[g].hdrsArg, headers)
           built == BuildPlan(gens[g].options, 1, NoChunks)
           gen == [gens[g] EXCEPT
                     !.omit = flag.omit,
                     !.request_headers = gens[g].hdrsArg,
                     !.chunks = built.chunks,
                     !.plan = built.chunks.subsets,
                     !.paging = PagingOf(gens[g].options),
                     !.options = Without(@, PagingKey)]
       IN /\ headers' = flag.headers
          /\ IF built.raised
             THEN /\ gens' = [gens EXCEPT ![g].pc = "error", ![g].err = "OtherError"]
                  /\ UNCHANGED <<stack, caller, xlog>>
             ELSE SendFor(g, gen, links) /\ xlog' = <<>>
    /\ UNCHANGED <<variant, hasCreds, links, access_token, auth, retries, result,
                   nreq, ntok>>

\* next() while the for loop of lines 469-470 has records left
PullRecord(g) ==
    /\ stack = <<>>
    /\ gens[g].pc = "buffer"
    /\ gens[g].buf # <<>>
    /\ gens' = [gens EXCEPT ![g].yielded = Append(@, Head(gens[g].buf)),
                            ![g].buf = Tail(@)]
    /\ UNCHANGED <<variant, hasCreds, headers, links, access_token, auth, retries, stack,
                   caller, result, xlog, nreq, ntok>>

\* line 472 without its paging test
LoopEnds_ignoresPaging(lnk, paging) == lnk = NoLink

\* line 472: self.links is None or paging.lower() == "false"
LoopEnds(lnk, paging) == lnk = NoLink \/ Lower(paging) = FalseStr

\* next() after the last record of a batch: line 472, then the next turn
PullMore(g) ==
    /\ stack = <<>>
    /\ gens[g].pc = "buffer"
    /\ gens[g].buf = <<>>
    /\ IF LoopEnds(links, gens[g].paging)
       THEN /\ gens' = [gens EXCEPT ![g].pc = "done"]
            /\ UNCHANGED <<stack, caller, xlog>>
       ELSE SendFor(g, gens[g], links) /\ xlog' = <<>>
    /\ UNCHANGED <<variant, hasCreds, headers, links, access_token, auth, retries, result,
                   nreq, ntok>>

\* count(dataset), ddl(dataset, database), docs(dataset): one request
OpRel(op, dataset) ==
    CASE op = "count" -> dataset
      [] op = "ddl" -> Cat(dataset, Lit(<<"?", "d", "d", "l", "=", "p", "g">>))
      [] op = "docs" -> Cat(dataset, Lit(<<"?", "d", "o", "c", "s", "=", "T", "r", "u", "e">>))

OpCall(op, dataset) ==
    /\ stack = <<>>
    /\ stack' = <<Frame("data", OpRel(op, dataset), 0, auth)>>
    /\ caller' = [t |-> "op", g |-> 0, op |-> op]
    /\ result' = NoResult
    /\ xlog' = <<>>
    /\ UNCHANGED <<variant, hasCreds, headers, links, access_token, auth, retries, gens,
                   nreq, ntok>>

(***************************************************************************)
(* Responses: the response hook _check_response, then the code that        *)
(* called session.get / head / post.                                       *)
(***************************************************************************)

Statuses == {200, 400, 401, 403, 404, 429}

\* line 66: the statuses the adapter retries; their responses do not
\* reach the hook
_status_forcelist == {500, 502, 503, 504}

\* the hook without its 404 branch, lines 173-174
_check_response_no404(status, url) ==
    IF status < 400 THEN "pass"
    ELSE IF status = 400
         THEN IF Contains(url, TokensName) THEN "AuthError" ELSE "QueryError"
    ELSE IF status = 401 THEN "refresh"
    ELSE IF status = 403 /\ Contains(url, TokensName) THEN "throttle"
    ELSE "pass"

\* lines 149-176: what the hook does with a response
_check_response(status, url) ==
    IF status < 400 THEN "pass"
    ELSE IF status = 400
         THEN IF Contains(url, TokensName) THEN "AuthError" ELSE "QueryError"
    ELSE IF status = 401 THEN "refresh"
    ELSE IF status = 403 /\ Contains(url, TokensName) THEN "throttle"
    ELSE IF status = 404 THEN "DatasetError"
    ELSE "pass"

Top == stack[Len(stack)]

\* the records of a response body: a JSON list of k objects, or a single
\* object (k = -1), which lines 455-456 wrap in a list; record <<n, i>> is
\* the i-th object of the n-th response
Records(n, k) ==
    IF k = -1 THEN <<<<n, 0>>>> ELSE [i \in 1..k |-> <<n, i>>]

Bodies == (-1)..MaxPageSize

Logged(status, recs) ==
    Append(xlog, [kind |-> Top.kind, status |-> status, auth |-> Top.auth,
                  resent |-> Top.resent, depth |-> Len(stack), recs |-> recs])

\* an exception leaves the hook: it unwinds every pending request and
\* reaches the caller
RaiseWith(kind, status, detail) ==
    /\ stack' = <<>>
    /\ UNCHANGED caller
    /\ IF caller.t = "gen"
       THEN /\ gens' = [gens EXCEPT ![caller.g].pc = "error", ![caller.g].err = kind,
                                    ![caller.g].detail = detail]
            /\ UNCHANGED result
       ELSE /\ result' = [op |-> caller.op, status |-> status, err |-> kind]
            /\ UNCHANGED gens

\* the messages of the hook's exceptions, lines 154-159 and 174
HookDetail(kind, status, n) ==
    CASE kind = "AuthError" -> [status |-> status, body |-> n]
      [] kind = "QueryError" -> [status |-> 0, body |-> n]
      [] OTHER -> NoDetail

Raise(kind, status) == RaiseWith(kind, status, NoDetail)

\* response.ok taken for true below 500
Ok_below500(status) == status < 500

\* response.ok
Ok(status) == status < 400

\* an empty batch always starts another turn of the loop
EmptyBatchContinues_always(chunks) == TRUE

\* lines 461-464: after an empty batch the loop continues while the chunk
\* plan has subsets left, and ends otherwise
EmptyBatchContinues(chunks) == ChunksPending(chunks)

\* lines 449-473: query() receives the response of its request
QueryReceives(g, status, n, k, hasNext) ==
    LET recs == Records(n, k)
        gen == gens[g]
    IN IF ~Ok(status)
       THEN /\ RaiseWith("QueryError", status, [status |-> status, body |-> n])
            /\ UNCHANGED links
       ELSE IF recs = <<>>
       THEN /\ links' = NoLink
            /\ IF EmptyBatchContinues(gen.chunks)
               THEN SendFor(g, [gen EXCEPT !.batches = Append(@, [recs |-> recs,
                                                                  next |-> hasNext])],
                            NoLink)
               ELSE /\ gens' = [gens EXCEPT ![g].pc = "done",
                                            ![g].batches = Append(@, [recs |-> recs,
                                                                      next |-> hasNext])]
                    /\ stack' = <<>>
                    /\ UNCHANGED caller
            /\ UNCHANGED result
       ELSE /\ links' = IF hasNext
                        THEN [id |-> n, url |-> Cat(Lit(<<"/">>), Top.rel)]
                        ELSE links
            /\ gens' = [gens EXCEPT ![g].pc = "buffer",
                                    ![g].batches = Append(@, [recs |-> recs,
                                                              next |-> hasNext]),
                                    ![g].yielded = Append(@, Head(recs)),
                                    ![g].buf = Tail(recs)]
            /\ stack' = <<>>
            /\ UNCHANGED caller
            /\ UNCHANGED result

\* count / ddl / docs receive the response of their request
OpReceives(status) ==
    /\ result' = [op |-> caller.op, status |-> status, err |-> "none"]
    /\ stack' = <<>>
    /\ UNCHANGED <<caller, gens, links>>

\* line 164 left out: the request is resent as it was
ResentAuth_stale(sessionAuth, requestAuth) == requestAuth

\* the Authorization header of the request resent after a refresh:
\* line 164
ResentAuth(sessionAuth, requestAuth) == sessionAuth

\* get_access_token receives the response of its POST, lines 547-550 and
\* 615-620, and returns to its caller: the hook, which resends its own
\* request (lines 163-165), or the constructor or the user of the client
TokenReceives(status) ==
    IF status >= 400
    THEN /\ Raise("OtherError", status)
         /\ UNCHANGED <<access_token, auth, ntok, links>>
    ELSE /\ access_token' = ntok + 1
         /\ auth' = Bearer(ntok + 1)
         /\ ntok' = ntok + 1
         /\ IF Len(stack) = 1
            THEN /\ stack' = <<>>
                 /\ result' = [op |-> caller.op, status |-> status, err |-> "none"]
            ELSE /\ stack' = SubSeq(stack, 1, Len(stack) - 2)
                             \o <<[stack[Len(stack) - 1] EXCEPT
                                     !.auth = ResentAuth(Bearer(ntok + 1), @),
                                     !.resent = TRUE,
                                     !.left = max_retries(retries)]>>
                 /\ UNCHANGED result
         /\ UNCHANGED <<gens, caller, links>>

\* the request carries X-Omit-Header-Next-Links: true; the service then
\* answers a dataset request with an object {"data": [...], "links": ...}
\* and no Link header
AsksBodyLinks(frame) == \E i \in 1..Len(frame.hdrs) : IsOmitHeader(frame.hdrs[i])

\* the "links" field of such a response: null, {"next": null} or
\* {"next": '<url>; rel="next"'}
LinksFields == {"null", "nonext", "next"}

\* the response object itself, taken as a record
Envelope(n) == <<n, -1>>

\* parse_links, lines 631-641
parse_links(lf, n, rel) ==
    IF lf = "next" THEN [id |-> n, url |-> Cat(Lit(<<"/">>), rel)] ELSE EmptyLinks

\* line 688: omit_header_next_link and records["links"]
HasBodyLinks(omit, lf) == omit /\ lf # "null"

\* lines 687-710: DeveloperAPIv3.query receives a successful response
\* whose body is such an object
QueryReceivesEnvelope(g, n, k, lf) ==
    LET gen == gens[g]
        parsed == HasBodyLinks(gen.omit, lf)
        recs == IF parsed THEN Records(n, k) ELSE <<Envelope(n)>>
        lnk == IF parsed THEN parse_links(lf, n, Top.rel) ELSE links
        batch == [recs |-> recs, next |-> lf = "next"]
    IN IF recs = <<>>
       THEN /\ links' = NoLink
            /\ IF EmptyBatchContinues(gen.chunks)
               THEN SendFor(g, [gen EXCEPT !.batches = Append(@, batch)], NoLink)
               ELSE /\ gens' = [gens EXCEPT ![g].pc = "done",
                                            ![g].batches = Append(@, batch)]
                    /\ stack' = <<>>
                    /\ UNCHANGED caller
       ELSE /\ links' = lnk
            /\ gens' = [gens EXCEPT ![g].pc = "buffer",
                                    ![g].batches = Append(@, batch),
                                    ![g].yielded = Append(@, Head(recs)),
                                    ![g].buf = Tail(recs)]
            /\ stack' = <<>>
            /\ UNCHANGED caller

\* a successful response to a dataset request that asked for body links
RespondEnvelope(k, lf) ==
    /\ stack # <<>>
    /\ nreq < MaxRequests
    /\ Top.kind = "data"
    /\ caller.t = "gen"
    /\ AsksBodyLinks(Top)
    /\ nreq' = nreq + 1
    /\ xlog' = Logged(200, Records(nreq + 1, k))
    /\ QueryReceivesEnvelope(caller.g, nreq + 1, k, lf)
    /\ UNCHANGED <<variant, hasCreds, headers, access_token, auth, retries, result, ntok>>

\* a response the hook lets through
RespondPass(status, k, hasNext) ==
    /\ stack # <<>>
    /\ nreq < MaxRequests
    /\ status \notin _status_forcelist
    /\ _check_response(status, Top.url) = "pass"
    /\ (Top.kind = "data" /\ caller.t = "gen" /\ status = 200) => ~AsksBodyLinks(Top)
    /\ IF status = 200 THEN TRUE ELSE k = 0 /\ ~hasNext
    /\ Top.kind = "data" => Len(stack) = 1
    /\ nreq' = nreq + 1
    /\ xlog' = Logged(status, IF Top.kind = "data" /\ status = 200
                              THEN Records(nreq + 1, k) ELSE <<>>)
    /\ IF Top.kind = "token"
       THEN /\ k = 0 /\ ~hasNext
            /\ TokenReceives(status)
       ELSE /\ IF caller.t = "gen"
               THEN QueryReceives(caller.g, status, nreq + 1, k, hasNext)
               ELSE /\ k = 0 /\ ~hasNext
                    /\ OpReceives(status)
            /\ UNCHANGED <<access_token, auth, ntok>>
    /\ UNCHANGED <<variant, hasCreds, headers, retries>>

\* 400 and 404: the hook raises
RespondRaise(status) ==
    /\ stack # <<>>
    /\ nreq < MaxRequests
    /\ _check_response(status, Top.url) \in {"AuthError", "QueryError", "DatasetError"}
    /\ nreq' = nreq + 1
    /\ xlog' = Logged(status, <<>>)
    /\ RaiseWith(_check_response(status, Top.url), status,
                 HookDetail(_check_response(status, Top.url), status, nreq + 1))
    /\ UNCHANGED <<variant, hasCreds, headers, links, access_token, auth, retries, ntok>>

\* lines 531 and 605 never finding the credentials missing
CredentialsMissing_ignored == FALSE

\* get_access_token up to its POST: lines 531-546 (v2), 605-614 (v3)
CredentialsMissing == ~hasCreds
TokenRequestAuth == IF variant = "v2" THEN Basic ELSE auth

\* get_access_token(), called by the constructor or by the user
CallGetAccessToken(op) ==
    /\ caller' = [t |-> "op", g |-> 0, op |-> op]
    /\ xlog' = <<>>
    /\ IF CredentialsMissing
       THEN /\ result' = [op |-> op, status |-> 0, err |-> "AuthError"]
            /\ UNCHANGED <<auth, stack>>
       ELSE /\ result' = NoResult
            /\ auth' = TokenRequestAuth
            /\ stack' = <<Frame("token", TokensName, 0, TokenRequestAuth)>>

\* the constructor always fetching a token
ConstructFetches_always(tokenGiven) == TRUE

\* lines 519-522: the constructor fetches a token unless it was given one
ConstructFetches(tokenGiven) == ~tokenGiven

\* the constructor call, by its access_token argument
InitOp(tokenGiven) == IF tokenGiven THEN "init_with_token" ELSE "init"

\* DirectAccessV2(...) / DeveloperAPIv3(...): lines 512-522 and 586-595;
\* a given token is token 0
Construct(tokenGiven) ==
    /\ caller = Unbuilt
    /\ access_token' = IF tokenGiven THEN 0 ELSE NoToken
    /\ IF ConstructFetches(tokenGiven)
       THEN CallGetAccessToken(InitOp(tokenGiven))
       ELSE /\ auth' = Bearer(0)
            /\ caller' = [t |-> "op", g |-> 0, op |-> InitOp(tokenGiven)]
            /\ result' = [op |-> InitOp(tokenGiven), status |-> 0, err |-> "none"]
            /\ UNCHANGED <<stack, xlog>>
    /\ UNCHANGED <<variant, hasCreds, headers, links, retries, gens, nreq, ntok>>

\* the constructor has returned a client
Built ==
    /\ caller # Unbuilt
    /\ caller.op \in {"init", "init_with_token"} => (stack = <<>> /\ result.err = "none")

\* client.get_access_token()
GetAccessToken ==
    /\ Built
    /\ stack = <<>>
    /\ CallGetAccessToken("get_access_token")
    /\ UNCHANGED <<variant, hasCreds, headers, links, access_token, retries, gens, nreq, ntok>>

\* 401: the hook calls get_access_token
RespondRefresh(status) ==
    /\ stack # <<>>
    /\ nreq < MaxRequests
    /\ _check_response(status, Top.url) = "refresh"
    /\ nreq' = nreq + 1
    /\ xlog' = Logged(status, <<>>)
    /\ IF CredentialsMissing
       THEN /\ Raise("AuthError", status)
            /\ UNCHANGED auth
       ELSE /\ auth' = TokenRequestAuth
            /\ stack' = Append(stack, Frame("token", TokensName, 0, TokenRequestAuth))
            /\ UNCHANGED <<gens, caller, result>>
    /\ UNCHANGED <<variant, hasCreds, headers, links, access_token, retries, ntok>>

\* 403 on a URL containing "tokens": the hook resends the request,
\* lines 166-172
RespondThrottle(status) ==
    /\ stack # <<>>
    /\ nreq < MaxRequests
    /\ _check_response(status, Top.url) = "throttle"
    /\ nreq' = nreq + 1
    /\ xlog' = Logged(status, <<>>)
    /\ retries' = retries - 1
    /\ stack' = [stack EXCEPT ![Len(stack)].resent = TRUE,
                              ![Len(stack)].left = max_retries(retries')]
    /\ UNCHANGED <<variant, hasCreds, headers, links, access_token, auth, gens, caller,
                   result, ntok>>

\* a 5xx of the force list: the adapter retries the request while the
\* request has retries left and raises RetryError when it has none; the
\* hook does not see the response
RespondRetry(status) ==
    /\ stack # <<>>
    /\ nreq < MaxRequests
    /\ status \in _status_forcelist
    /\ nreq' = nreq + 1
    /\ xlog' = Logged(status, <<>>)
    /\ IF Top.left > 0
       THEN /\ stack' = [stack EXCEPT ![Len(stack)].left = @ - 1]
            /\ UNCHANGED <<gens, caller, result>>
       ELSE RaiseWith("RetryError", status, NoDetail)
    /\ UNCHANGED <<variant, hasCreds, headers, links, access_token, auth, retries, ntok>>

(***************************************************************************)
(* Specifications.                                                         *)
(*   Spec     the paging loop of one query() call, with and without a      *)
(*            chunk plan; every response is a success or a status the      *)
(*            hook lets through.                                           *)
(*   SpecTwo  two query() calls on one client, in any interleaving.        *)
(*   SpecAuth the response hook: one query() call and the single-request   *)
(*            operations, every status the hook distinguishes.             *)
(*   SpecToken construction of the client and get_access_token, called by  *)
(*            the constructor, by the user and by the hook.                *)
(*   SpecRetry the adapter's retries of 5xx responses next to the hook's   *)
(*            refresh and throttle resends.                                *)
(*   SpecV3   DeveloperAPIv3.query with the _headers option, followed by   *)
(*            calls without it.                                            *)
(***************************************************************************)

PagingStatuses == {200, 429}

Next ==
    \/ \E d \in Datasets, o \in OptionChoices : Query(1, d, o)
    \/ PullFirst(1)
    \/ PullRecord(1)
    \/ PullMore(1)
    \/ \E st \in PagingStatuses, k \in Bodies, hn \in BOOLEAN : RespondPass(st, k, hn)

InitPaging == Init /\ hasCreds /\ variant = "v2"

Spec == InitPaging /\ [][Next]_vars

TwoOptions == {<<>>, <<Opt(PagingKey, FalseStr)>>}

NextTwo ==
    \/ \E g \in GenIds, d \in Datasets, o \in TwoOptions :
          (g = 1 => d = Wells) /\ Query(g, d, o)
    \/ \E g \in GenIds : PullFirst(g)
    \/ \E g \in GenIds : PullRecord(g)
    \/ \E g \in GenIds : PullMore(g)
    \/ \E st \in PagingStatuses, k \in Bodies, hn \in BOOLEAN : RespondPass(st, k, hn)

SpecTwo == InitPaging /\ [][NextTwo]_vars

AuthOptions == {<<>>, <<Opt(UidKey, TokensName)>>}
AuthBodies == 0..MaxPageSize

NextAuth ==
    \/ \E o \in AuthOptions : Query(1, Wells, o)
    \/ PullFirst(1)
    \/ PullRecord(1)
    \/ PullMore(1)
    \/ \E op \in {"count", "ddl", "docs"} : OpCall(op, Wells)
    \/ \E st \in Statuses, k \in AuthBodies, hn \in BOOLEAN : RespondPass(st, k, hn)
    \/ \E st \in Statuses : RespondRaise(st)
    \/ \E st \in Statuses : RespondRefresh(st)
    \/ \E st \in Statuses : RespondThrottle(st)

SpecAuth == Init /\ [][NextAuth]_vars

NextToken ==
    \/ \E given \in BOOLEAN : Construct(given)
    \/ GetAccessToken
    \/ Built /\ OpCall("count", Wells)
    \/ \E st \in Statuses : RespondPass(st, 0, FALSE)
    \/ \E st \in Statuses : RespondRaise(st)
    \/ \E st \in Statuses : RespondRefresh(st)
    \/ \E st \in Statuses : RespondThrottle(st)

SpecToken == InitUnbuilt /\ [][NextToken]_vars

RetryStatuses == {200, 401, 403, 500, 503}

NextRetry ==
    \/ GetAccessToken
    \/ \E op \in {"count", "docs"} : OpCall(op, Wells)
    \/ \E st \in RetryStatuses : RespondPass(st, 0, FALSE)
    \/ \E st \in RetryStatuses : RespondRefresh(st)
    \/ \E st \in RetryStatuses : RespondThrottle(st)
    \/ \E st \in RetryStatuses : RespondRetry(st)

InitRetry == Init /\ hasCreds

\* the _headers option of a v3 query() call
HeaderChoices ==
    {<<Hdr(OmitKey, TrueStr)>>,
     <<Hdr(TagKey, Lit(<<"a">>))>>,
     <<Hdr(OmitLower, Lit(<<"T", "r", "u", "e">>)), Hdr(TagKey, Lit(<<"a">>))>>}

EnvelopeBodies == 0..MaxPageSize

NextV3 ==
    \/ \E o \in TwoOptions, h \in HeaderChoices : QueryWithHeaders(1, Wells, o, h)
    \/ Query(2, Rigs, <<>>)
    \/ \E g \in GenIds : PullFirst(g)
    \/ \E g \in GenIds : PullRecord(g)
    \/ \E g \in GenIds : PullMore(g)
    \/ OpCall("count", Wells)
    \/ \E k \in EnvelopeBodies, hn \in BOOLEAN : RespondPass(200, k, hn)
    \/ \E k \in EnvelopeBodies, lf \in LinksFields : RespondEnvelope(k, lf)

InitV3 == Init /\ hasCreds /\ variant = "v3"

SpecV3 == InitV3 /\ [][NextV3]_vars

SpecRetry == InitRetry /\ [][NextRetry]_vars

(***************************************************************************)
(* Properties.                                                             *)
(***************************************************************************)

RECURSIVE Flatten(_)
Flatten(ss) == IF ss = <<>> THEN <<>> ELSE Head(ss) \o Flatten(Tail(ss))

IsPrefix(s, t) == Len(s) <= Len(t) /\ s = SubSeq(t, 1, Len(s))

Started(gen) == gen.pc \notin {"none", "new"}
PagingEnabled(gen) == Lower(gen.paging) # FalseStr

\* the record lists a generator received, in order
BatchRecords(gen) == [i \in 1..Len(gen.batches) |-> gen.batches[i].recs]

\* the subsets a generator took from its chunk plan, in order
SubsetsSent(gen) ==
    LET idx == {i \in 1..Len(gen.reqs) : gen.reqs[i].subset # <<>>}
        RECURSIVE Pick(_)
        Pick(i) == IF i > Len(gen.reqs) THEN <<>>
                   ELSE IF i \in idx THEN <<gen.reqs[i].subset>> \o Pick(i + 1)
                   ELSE Pick(i + 1)
    IN Pick(1)

\* the positions of the oversized in() filters among the options
OversizedFields(options) == {i \in 1..Len(options) : Oversized(options[i].value)}

\* the error the last operation of the caller ended with
LastErr == IF caller.t = "gen" THEN gens[caller.g].err ELSE result.err
LastExchange == xlog[Len(xlog)]

\* C1: a result set served as non-empty pages, each but the last with a
\* next-link: with paging enabled and no chunk plan, no link is requested
\* twice, nothing is requested after the page without a next-link, and the
\* finished sequence is exactly the pages' records in server order.
C1_PagedSequence ==
    LET gen == gens[1] IN
    (/\ Started(gen)
     /\ PagingEnabled(gen)
     /\ gen.plan = <<>>
     /\ gen.err = "none"
     /\ \A i \in 1..Len(gen.batches) : gen.batches[i].recs # <<>>)
    => /\ \A i, j \in 1..Len(gen.reqs) :
            (i # j /\ gen.reqs[i].kind = "link" /\ gen.reqs[j].kind = "link")
            => gen.reqs[i].link # gen.reqs[j].link
       /\ \A i \in 1..Len(gen.batches) : ~gen.batches[i].next => Len(gen.reqs) <= i
       /\ IsPrefix(gen.yielded, Flatten(BatchRecords(gen)))
       /\ gen.pc = "done" => gen.yielded = Flatten(BatchRecords(gen))

\* C2: query with paging="false" on a client with no active link yields
\* exactly the records of the first non-empty batch, then ends without a
\* further request, also when that batch came with a next-link.
C2_PagingDisabled ==
    LET gen == gens[1]
        full == {i \in 1..Len(gen.batches) : gen.batches[i].recs # <<>>}
    IN (Started(gen) /\ ~PagingEnabled(gen) /\ gen.reqs[1].kind = "fresh")
       => /\ \A i \in 1..Len(gen.reqs) : gen.reqs[i].kind = "fresh"
          /\ \A i \in full : /\ i = Len(gen.batches)
                             /\ i = Len(gen.reqs)
                             /\ gen.yielded \o gen.buf = gen.batches[i].recs
                             /\ gen.pc \in {"buffer", "done"}
          /\ full = {} => gen.yielded = <<>>
          /\ gen.pc = "done" => gen.buf = <<>>
          /\ (gen.pc = "buffer" /\ gen.buf = <<>>) => LoopEnds(links, gen.paging)

C2_Witness ==
    /\ gens[1].pc = "done"
    /\ ~PagingEnabled(gens[1])
    /\ Len(gens[1].yielded) = 2
    /\ gens[1].batches[Len(gens[1].batches)].next
    /\ links # NoLink

\* C3: whatever an earlier query() call did, the first request of a call
\* is a GET of the call's own dataset URL with the call's own options,
\* never a GET of a continuation link.
C3_FreshFirstRequest ==
    \A g \in GenIds :
        gens[g].reqs # <<>>
        => /\ gens[g].reqs[1].kind = "fresh"
           /\ gens[g].reqs[1].url =
                  RequestUrl(UrlJoin(BaseUrl, gens[g].dataset),
                             Without(gens[g].args, PagingKey))

\* the exchanges of the current call answered 401 on a data request
Unauthorized == {i \in 1..Len(xlog) : xlog[i].status = 401 /\ xlog[i].kind = "data"}

\* C4: a data request answered 401, refreshed and resent with success is
\* invisible to the caller: no error, the records are those of the
\* successful response, the resent request carried the new bearer token,
\* and the session's header and stored token are the new token.
C4_RefreshTransparent ==
    (/\ Unauthorized # {}
     /\ LastExchange.kind = "data"
     /\ LastExchange.status = 200)
    => /\ stack = <<>>
       /\ LastErr = "none"
       /\ LastExchange.resent
       /\ ntok >= 1
       /\ LastExchange.auth = Bearer(ntok)
       /\ auth = Bearer(ntok)
       /\ access_token = ntok
       /\ caller.t = "gen" =>
             LET gen == gens[caller.g] IN
             /\ gen.batches[Len(gen.batches)].recs = LastExchange.recs
             /\ gen.yielded \o gen.buf = Flatten(BatchRecords(gen))
             /\ gen.pc \in {"buffer", "done"}
       /\ caller.t = "op" => result.status = 200

C4_Witness ==
    /\ Len(xlog) = 3
    /\ xlog[1].status = 401 /\ xlog[2].kind = "token" /\ xlog[2].status = 200
    /\ xlog[3].kind = "data" /\ xlog[3].status = 200
    /\ caller.t = "gen"
    /\ Len(gens[1].yielded) = 2
    /\ auth = Bearer(1)
    /\ variant = "v2"

\* C5: one original request is refreshed and resent at most once: a second
\* 401 is not refreshed again and reaches the caller as an AuthError.
C5_SingleRefresh ==
    Cardinality(Unauthorized) >= 2 => (stack = <<>> /\ LastErr = "AuthError")

\* C6: a throttled token request is resent while the retry budget lasts;
\* with the budget used up the failure reaches the caller as an AuthError
\* and nothing more is sent.
C6_ThrottleBudget ==
    (/\ xlog # <<>>
     /\ LastExchange.kind = "token"
     /\ LastExchange.status = 403
     /\ retries < 0)
    => (stack = <<>> /\ LastErr = "AuthError")

\* C7: a 400 of the token endpoint raises AuthError, a 400 of a data
\* endpoint raises QueryError.
C7_BadRequest ==
    (xlog # <<>> /\ LastExchange.status = 400)
    => /\ stack = <<>>
       /\ LastErr = IF LastExchange.kind = "token" THEN "AuthError" ELSE "QueryError"

\* C8: a 404 of a dataset endpoint raises DatasetError, whichever
\* operation sent the request and whatever the token and throttle state.
C8_NotFound ==
    (xlog # <<>> /\ LastExchange.status = 404 /\ LastExchange.kind = "data")
    => (stack = <<>> /\ LastErr = "DatasetError")

C8_Witness ==
    /\ xlog # <<>>
    /\ LastExchange.status = 404
    /\ caller.t = "gen"
    /\ Len(gens[1].reqs) = 2
    /\ gens[1].reqs[2].kind = "link"
    /\ gens[1].err = "DatasetError"

\* C9: the chunk plan of an oversized in() filter is a partition of its
\* value list into non-empty subsets, in order, and each subset taken from
\* the plan is sent as the in(...) expression of its own dataset request.
C9_ChunkPlanPartition ==
    LET gen == gens[1] IN
    \A vs \in ValueLists :
        (/\ Started(gen)
         /\ Cardinality(OversizedFields(gen.args)) = 1
         /\ HasKey(gen.args, UidKey)
         /\ Lookup(gen.args, UidKey) = in_(vs))
        => /\ gen.plan # <<>>
           /\ \A i \in 1..Len(gen.plan) : gen.plan[i] # <<>>
           /\ Flatten(gen.plan) = vs
           /\ IsPrefix(SubsetsSent(gen), gen.plan)
           /\ \A i \in 1..Len(gen.reqs) :
                 gen.reqs[i].subset # <<>>
                 => /\ gen.reqs[i].kind = "fresh"
                    /\ gen.reqs[i].url =
                         RequestUrl(UrlJoin(BaseUrl, gen.dataset),
                                    Assign(Without(gen.args, PagingKey), UidKey,
                                           in_(gen.reqs[i].subset)))

C9_Witness ==
    /\ gens[1].plan = <<<<Rep("a", 700), Rep("b", 700)>>, <<Rep("a", 650)>>>>
    /\ SubsetsSent(gens[1]) = gens[1].plan

\* C10: with paging enabled and a chunk plan, the sequence ends only when
\* every subset of the plan has been requested.
C10_PlanExhausted ==
    LET gen == gens[1] IN
    (gen.pc = "done" /\ PagingEnabled(gen) /\ gen.plan # <<>>)
    => SubsetsSent(gen) = gen.plan

\* the last response was a failure the hook let through to query()
FailedThrough ==
    /\ xlog # <<>>
    /\ stack = <<>>
    /\ caller.t = "gen"
    /\ LastExchange.kind = "data"
    /\ LastExchange.status >= 400
    /\ LastExchange.status \notin {400, 401, 404}

\* C11: a failure response the hook lets through to query() raises
\* QueryError with the response's status and text: every record of the
\* earlier batches has been yielded, the failing response adds no batch
\* and no record, and it answers the last request the sequence built.
C11_UnhandledStatus ==
    FailedThrough
    => LET gen == gens[caller.g] IN
       /\ gen.pc = "error"
       /\ gen.err = "QueryError"
       /\ gen.detail = [status |-> LastExchange.status, body |-> nreq]
       /\ gen.buf = <<>>
       /\ gen.yielded = Flatten(BatchRecords(gen))
       /\ LastExchange.recs = <<>>
       /\ Len(gen.reqs) = Len(gen.batches) + 1

C11_Witness ==
    /\ FailedThrough
    /\ LastExchange.status = 429
    /\ LastExchange.resent
    /\ Len(gens[1].batches) = 1
    /\ Len(gens[1].yielded) = 1

\* C12: when the first request of a query() call without chunk plan, sent
\* with no link active, returns an empty list, the sequence ends there:
\* nothing yielded, no error, one request only, no link left active.
C12_EmptyFirstBatch ==
    LET gen == gens[1] IN
    (/\ Len(gen.batches) >= 1
     /\ gen.plan = <<>>
     /\ gen.reqs[1].kind = "fresh"
     /\ gen.batches[1].recs = <<>>)
    => /\ gen.pc = "done"
       /\ gen.err = "none"
       /\ gen.yielded = <<>>
       /\ gen.buf = <<>>
       /\ Len(gen.reqs) = 1
       /\ Len(gen.batches) = 1
       /\ stack = <<>>
       /\ links = NoLink

C12_Witness ==
    /\ gens[1].pc = "done"
    /\ gens[1].args = <<>>
    /\ gens[1].batches = <<[recs |-> <<>>, next |-> TRUE]>>
    /\ nreq = 1

\* a token request is in flight or was answered during the current call
TokenExchanged ==
    \/ \E i \in 1..Len(stack) : stack[i].kind = "token"
    \/ \E i \in 1..Len(xlog) : xlog[i].kind = "token"

\* C13: without credentials get_access_token raises AuthError before it
\* sends anything and leaves the stored token and the Authorization header
\* as they were, whether the constructor, the user or the hook (after a
\* 401 on a client built with a pre-existing token) called it, in both
\* variants.
C13_NoCredentials ==
    ~hasCreds
    => /\ ~TokenExchanged
       /\ ntok = 0
       /\ IF Built THEN access_token = 0 /\ auth = Bearer(0)
                   ELSE access_token = NoToken /\ auth = NoAuth
       /\ caller.op = "init"
             => (stack = <<>> /\ xlog = <<>> /\ result.err = "AuthError")
       /\ caller.op = "get_access_token"
             => (stack = <<>> /\ xlog = <<>> /\ result.err = "AuthError")
       /\ (xlog # <<>> /\ LastExchange.status = 401)
             => (stack = <<>> /\ Len(xlog) = 1 /\ LastErr = "AuthError")

C13_Witness ==
    /\ ~hasCreds
    /\ Built
    /\ xlog # <<>>
    /\ LastExchange.status = 401
    /\ result.err = "AuthError"
    /\ auth = Bearer(0)

\* C14: a constructor given an access token sends nothing and sets the
\* Authorization header to the bearer form of that token; a constructor
\* given none fetches a token, and when it returns the stored token and
\* the header are the token the endpoint issued, after exactly one token
\* request when the endpoint answered it with success.
C14_Construction ==
    /\ caller.op = "init_with_token"
         => /\ stack = <<>>
            /\ xlog = <<>>
            /\ nreq = 0
            /\ ntok = 0
            /\ result.err = "none"
            /\ access_token = 0
            /\ auth = Bearer(0)
    /\ (caller.op = "init" /\ Built)
         => /\ xlog # <<>>
            /\ LastExchange.kind = "token"
            /\ LastExchange.status = 200
            /\ ntok >= 1
            /\ access_token = ntok
            /\ auth = Bearer(ntok)
            /\ xlog[1].status = 200 => (Len(xlog) = 1 /\ ntok = 1 /\ nreq = 1)

C14_GivenWitness ==
    /\ caller.op = "init_with_token"
    /\ auth = Bearer(0)
    /\ variant = "v3"

C14_Witness ==
    /\ caller.op = "init"
    /\ Built
    /\ Len(xlog) = 1
    /\ auth = Bearer(1)
    /\ variant = "v2"

\* the length of the longest value of a list
LongestLen(values) ==
    CHOOSE n \in {StrLen(values[i]) : i \in 1..Len(values)} :
        \A i \in 1..Len(values) : StrLen(values[i]) <= n

\* C15: every subset of the chunk plan of an oversized in() filter is at
\* most 1950 characters long once written as in(v1,v2,...), and the plan
\* puts floor(1950 / L) values in a subset, L the length of the longest
\* value of the list.
C15_SubsetsFit ==
    LET gen == gens[1] IN
    \A vs \in ValueLists :
        (/\ Started(gen)
         /\ HasKey(gen.args, UidKey)
         /\ Lookup(gen.args, UidKey) = in_(vs))
        => \A i \in 1..Len(gen.plan) :
              /\ StrLen(in_(gen.plan[i])) <= ChunkThreshold
              /\ Len(gen.plan[i]) <= ChunkThreshold \div LongestLen(vs)
              /\ i < Len(gen.plan)
                    => Len(gen.plan[i]) = ChunkThreshold \div LongestLen(vs)

\* C16: one link at most is active, and a subset leaves the chunk plan
\* only while none is: a request that follows a link follows a link given
\* by a page of the current subset, and every subset after the first is
\* requested right after an empty batch cleared the link.
C16_LinksWithinSubset ==
    LET gen == gens[1] IN
    /\ links = NoLink \/ (links.id \in 1..nreq /\ gen.batches[links.id].next)
    /\ \A i \in 1..Len(gen.reqs) :
          /\ gen.reqs[i].kind = "link"
                => /\ gen.reqs[i].subset = <<>>
                   /\ gen.reqs[i].link \in 1..(i - 1)
                   /\ gen.batches[gen.reqs[i].link].next
                   /\ \A j \in (gen.reqs[i].link + 1)..i : gen.reqs[j].kind = "link"
          /\ (gen.reqs[i].subset # <<>> /\ i > 1)
                => gen.batches[i - 1].recs = <<>>
    /\ (gen.pc = "wait" /\ gen.reqs[Len(gen.reqs)].kind = "fresh") => links = NoLink

C16_Witness ==
    /\ Len(gens[1].reqs) = 3
    /\ gens[1].reqs[2].kind = "link"
    /\ gens[1].reqs[3].subset = <<Rep("a", 650)>>
    /\ gens[1].pc = "wait"

\* C17: every page overwrites the session's link: after a page the link
\* is the next-link of that page, absent when the page gave none or was
\* empty, and a sequence that has ended, by exhaustion or because paging
\* was disabled, leaves no link.
C17_LinkTracksPage ==
    LET gen == gens[1]
        last == gen.batches[Len(gen.batches)]
    IN /\ (gen.pc = "buffer" /\ gen.err = "none")
            => IF last.next THEN links.id = Len(gen.batches) ELSE links = NoLink
       /\ gen.pc = "done" => links = NoLink

\* C18: while no request is in flight the Authorization header of the
\* session is the bearer form of the stored access token, and both are
\* the token issued last (the given one when none was issued): a token
\* request that failed with AuthError changed neither.
C18_TokenWholesale ==
    (Built /\ stack = <<>> /\ LastErr \in {"none", "AuthError"})
    => /\ access_token = ntok
       /\ auth = Bearer(access_token)

\* the 5xx responses at the end of the current call's exchanges
RECURSIVE Trailing5xx(_)
Trailing5xx(log) ==
    IF log = <<>> THEN 0
    ELSE IF log[Len(log)].status \in _status_forcelist
         THEN 1 + Trailing5xx(SubSeq(log, 1, Len(log) - 1))
         ELSE 0

Throttled == retries < InitRetries

C20_LastFieldChunked ==
    LET gen == gens[1]
        over == OversizedFields(gen.args)
        lastI == CHOOSE i \in over : \A j \in over : j <= i
        sent == {i \in 1..Len(gen.reqs) : gen.reqs[i].kind = "fresh"}
    IN (Started(gen) /\ Cardinality(over) >= 2)
       => /\ gen.chunks.active
          /\ gen.chunks.field = gen.args[lastI].field
          /\ Flatten(gen.plan) = FilterValues(gen.args[lastI].value)
          /\ \A i \in over \ {lastI} :
                Lookup(gen.options, gen.args[i].field) = gen.args[i].value
          /\ \A r \in sent :
                /\ gen.reqs[r].subset # <<>>
                /\ gen.reqs[r].url =
                     RequestUrl(UrlJoin(BaseUrl, gen.dataset),
                                Assign(Without(gen.args, PagingKey),
                                       gen.args[lastI].field,
                                       in_(gen.reqs[r].subset)))

C20_Witness ==
    /\ gens[1].args = <<Opt(UidKey, in_(ListTwoOne)), Opt(ApiKey, in_(ListOnes))>>
    /\ Len(gens[1].reqs) = 3
    /\ gens[1].reqs[3].subset = <<Rep("b", 1000)>>
    /\ gens[1].pc = "buffer"

\* no query() call is between its first next() and its end
NoCallRunning == \A g \in GenIds : gens[g].pc \in {"none", "new", "done", "error"}

\* C21: the _headers of a v3 query() call go out with every request of
\* that call and with no request of a call that does not pass them, and
\* once the call is over the session's headers are what they were before.
C21_HeadersPerRequest ==
    /\ NoCallRunning => headers = <<>>
    /\ stack # <<>>
         => stack[1].hdrs = IF caller.t = "gen" THEN gens[caller.g].hdrsArg ELSE <<>>

\* C22: in body-link mode every record yielded is an element of the data
\* list of a response; the response object is never yielded, also when
\* its links field is null or empty.
C22_DataRecordsOnly ==
    \A g \in GenIds :
        gens[g].omit
        => /\ \A i \in 1..Len(gens[g].yielded) : gens[g].yielded[i][2] >= 1
           /\ \A i \in 1..Len(gens[g].buf) : gens[g].buf[i][2] >= 1

\* C23: in body-link mode with paging enabled and no chunk plan, a
\* response with a non-empty data list whose links object holds no next
\* link is the last: its request is the last request of the sequence,
\* which ends once the batch is yielded.
C23_NoNextEnds ==
    LET gen == gens[1]
        last == {i \in 1..Len(gen.batches) :
                    /\ gen.batches[i].recs # <<>>
                    /\ gen.batches[i].recs[1] # Envelope(gen.batches[i].recs[1][1])
                    /\ ~gen.batches[i].next}
    IN (gen.omit /\ PagingEnabled(gen) /\ gen.plan = <<>>)
       => \A i \in last :
             /\ Len(gen.reqs) = i
             /\ gen.pc \in {"buffer", "done"}

\* a query() call between its first next() and its end
Running(g) == gens[g].pc \in {"wait", "buffer"}

\* the responses whose next-link generator g captured
Captured(g) ==
    {gens[g].batches[j].recs[1][1] :
        j \in {i \in 1..Len(gens[g].batches) :
                  gens[g].batches[i].recs # <<>> /\ gens[g].batches[i].next}}

\* C24: two sequences of one client pulled alternately are independent:
\* while both are running each one starts with its own dataset request
\* and follows only links of its own pages, so that its records are the
\* pages of its own result set.
C24_InterleavedIndependent ==
    (\A g \in GenIds : Running(g))
    => \A g \in GenIds :
          \A i \in 1..Len(gens[g].reqs) :
             IF i = 1 THEN gens[g].reqs[i].kind = "fresh"
             ELSE gens[g].reqs[i].kind = "link"
                    => gens[g].reqs[i].link \in Captured(g)

====
